---- MODULE Spec2Model ----
(***************************************************************************)
(* Model of odir's download transaction: the signal listener thread of     *)
(* signal_handler.rs, the ModelDownload arm of main.rs, download_model of  *)
(* OllamaModelDownloader / HuggingFaceModelDownloader and the free         *)
(* functions of downloader/utils.rs, over an explicit filesystem; the      *)
(* ownership reconciliation of utils::save_manifest and the paging check   *)
(* of HuggingFaceModelDownloader::list_available_models.                   *)
(***************************************************************************)
EXTENDS Integers, Sequences, FiniteSets, TLC

\* ------------------------------------------------------------------ bounds
\* Largest number of layers a manifest declares (besides its config).
MaxLayers == 1
\* Number of 8 KiB chunks of a blob body.
MaxBodyLen == 2
\* Number of SIGINT/SIGTERM the environment raises during one run.
MaxSignals == 1
\* Number of 20 ms polls of wait_for_cleanup_completion that are tracked
\* (the code polls CLEANUP_TIMEOUT_MS / POLL_INTERVAL_MS times).
MaxPolls == 2
\* Largest number of components of a path given to utils::save_manifest.
MaxPathLen == 3

\* Width in bits of the unsigned integers of list_available_models: the u32
\* of the source scaled down, the 999 ceiling and the cap of 100 kept.
U32Bits == 14

\* longest model identifier given on the command line
MaxIdLen == 4

\* ------------------------------------------------------- program constants
SIGINT == 2
SIGTERM == 15
NoSignal == 0
ExitSigint == 130
ExitSigterm == 143
ExitFailure == 1
ExitSuccess == 0
\* Levels of <models>/manifests/<host>/library/<model>.
ManifestDirDepth == 4

\* ------------------------------------------------------------- blob bodies
\* The two bodies the remote can serve for a blob: they differ in the last chunk.
BodyA == [i \in 1..MaxBodyLen |-> 0]
BodyB == [i \in 1..MaxBodyLen |-> IF i = MaxBodyLen THEN 1 ELSE 0]
RemoteBodies == {BodyA, BodyB}

\* Sha256::new / update / finalize as a streaming fold that is injective on
\* chunk sequences (collision freedom is what the code relies on).
Sha256_new == 0
Sha256_update(h, chunk) == h * 3 + chunk + 1

RECURSIVE Sha256_digest(_)
Sha256_digest(data) ==
    IF data = <<>> THEN Sha256_new
    ELSE Sha256_update(Sha256_digest(SubSeq(data, 1, Len(data) - 1)), data[Len(data)])

\* A manifest digest "sha256:<hex>".
NamedDigest(h) == [prefix |-> "sha256:", hex |-> h]
\* &named_digest[7..]
expected_digest(named_digest) == named_digest.hex

DeclaredDigests == {NamedDigest(Sha256_digest(b)) : b \in RemoteBodies}

Manifests ==
    {[config |-> NamedDigest(Sha256_digest(BodyA)), layers |-> ls] :
        ls \in UNION {[1..n -> DeclaredDigests] : n \in 0..MaxLayers}}

\* config first, then the layers in declared order
BlobDigests(m) == <<m.config>> \o m.layers
NumBlobs(m) == 1 + Len(m.layers)
MaxBlobs == 1 + MaxLayers

\* -------------------------------------------------------------- filesystem
ModelsRoot == <<"models", 0>>
BlobsDir == <<"blobs_dir", 0>>
TmpPath(i) == <<"tmp", i>>
\* blobs_dir.join(named_digest.replace(':', "-"))
BlobPath(named_digest) == <<"sha256-", named_digest.hex>>
ManifestDir(k) == <<"manifest_dir", k>>
ManifestsLeaf == ManifestDir(ManifestDirDepth)
ManifestFile == <<"manifest", 0>>

TmpPaths == {TmpPath(i) : i \in 1..MaxBlobs}
BlobPaths == {BlobPath(d) : d \in DeclaredDigests}
ManifestDirs == {ManifestDir(k) : k \in 1..ManifestDirDepth}
Paths == {ModelsRoot, BlobsDir, ManifestFile} \cup TmpPaths \cup BlobPaths \cup ManifestDirs

Parent(p) ==
    IF p \in BlobPaths THEN BlobsDir
    ELSE IF p = ManifestFile THEN ManifestsLeaf
    ELSE IF p \in ManifestDirs /\ p[2] > 1 THEN ManifestDir(p[2] - 1)
    ELSE ModelsRoot

Absent == [kind |-> "absent", data |-> <<>>]
Dir == [kind |-> "dir", data |-> <<>>]
File(data) == [kind |-> "file", data |-> data]

exists(fsys, p) == fsys[p].kind # "absent"
is_file(fsys, p) == fsys[p].kind = "file"
is_dir(fsys, p) == fsys[p].kind = "dir"
IsEmptyDir(fsys, d) == \A p \in Paths : Parent(p) = d /\ p # d => ~exists(fsys, p)

\* The manifest body as received (one write) and what a failed write leaves.
ManifestBody == <<1>>


\* ------------------------------------------------------ the commit engine
\* Outcomes of fs::copy(source, target): complete, failed before the target
\* was created, or failed after `written` chunks reached the target.
CopyOutcomes(data) ==
    {[ok |-> TRUE, created |-> TRUE, written |-> Len(data)],
     [ok |-> FALSE, created |-> FALSE, written |-> 0]}
    \cup {[ok |-> FALSE, created |-> TRUE, written |-> k] : k \in 0..(Len(data) - 1)}

\* Variant of save_blob that copies before it compares the digests.
save_blob_copy_first(fsys, uf, source, named_digest, computed_digest, copy) ==
    LET target == BlobPath(named_digest) IN
    IF computed_digest # expected_digest(named_digest)
    THEN [ok |-> FALSE, err |-> "Digest mismatch",
          fs |-> [fsys EXCEPT ![target] = File(fsys[source].data)],
          unnecessary_files |-> (uf \ {source}) \cup {target}]
    ELSE [ok |-> copy.ok, err |-> IF copy.ok THEN "" ELSE "IoError",
          fs |-> [fsys EXCEPT ![target] = File(SubSeq(fsys[source].data, 1, copy.written))],
          unnecessary_files |-> (uf \ {source}) \cup {target}]

\* Variant of save_blob that leaves the source in the ledger.
save_blob_keep_source(fsys, uf, source, named_digest, computed_digest, copy) ==
    LET target == BlobPath(named_digest) IN
    IF computed_digest # expected_digest(named_digest)
    THEN [ok |-> FALSE, err |-> "Digest mismatch", fs |-> fsys, unnecessary_files |-> uf]
    ELSE IF copy.ok
    THEN [ok |-> TRUE, err |-> "",
          fs |-> [fsys EXCEPT ![target] = File(fsys[source].data)],
          unnecessary_files |-> uf \cup {target}]
    ELSE [ok |-> FALSE, err |-> "IoError",
          fs |-> IF copy.created
                 THEN [fsys EXCEPT ![target] = File(SubSeq(fsys[source].data, 1, copy.written))]
                 ELSE fsys,
          unnecessary_files |-> uf]

\* save_blob: digest check, blobs directory checks, fs::copy, then the
\* transfer of the source's ledger entry to the target.
save_blob(fsys, uf, source, named_digest, computed_digest, copy) ==
    LET target == BlobPath(named_digest) IN
    IF computed_digest # expected_digest(named_digest)
    THEN [ok |-> FALSE, err |-> "Digest mismatch", fs |-> fsys, unnecessary_files |-> uf]
    ELSE IF ~exists(fsys, BlobsDir) \/ ~is_dir(fsys, BlobsDir)
    THEN [ok |-> FALSE, err |-> "BLOBS directory", fs |-> fsys, unnecessary_files |-> uf]
    ELSE IF copy.ok
    THEN [ok |-> TRUE, err |-> "",
          fs |-> [fsys EXCEPT ![target] = File(fsys[source].data)],
          unnecessary_files |-> (uf \ {source}) \cup {target}]
    ELSE [ok |-> FALSE, err |-> "IoError",
          fs |-> IF copy.created
                 THEN [fsys EXCEPT ![target] = File(SubSeq(fsys[source].data, 1, copy.written))]
                 ELSE fsys,
          unnecessary_files |-> uf]

\* Number of levels of the manifests directory chain that exist.
ExistingLevels(fsys) == Cardinality({k \in 1..ManifestDirDepth : exists(fsys, ManifestDir(k))})

\* fs::create_dir_all(manifests_dir) that got as far as level `upto`.
create_dir_all(fsys, upto) ==
    [p \in Paths |-> IF p \in ManifestDirs /\ p[2] <= upto /\ ~exists(fsys, p) THEN Dir ELSE fsys[p]]

MkdirOutcomes(fsys) == ExistingLevels(fsys)..ManifestDirDepth
WriteOutcomes == {"ok", "failed", "truncated"}

\* Variant of save_manifest that appends to a manifest file already there.
save_manifest_append(fsys, uf, mkdir, write) ==
    LET missing == ~exists(fsys, ManifestsLeaf)
        fs1 == IF missing THEN create_dir_all(fsys, mkdir) ELSE fsys
        uf1 == IF missing THEN uf \cup {ManifestsLeaf} ELSE uf
        old == IF is_file(fsys, ManifestFile) THEN fsys[ManifestFile].data ELSE <<>>
    IN
    IF (missing /\ mkdir < ManifestDirDepth) \/ write # "ok"
    THEN [ok |-> FALSE, err |-> "IoError", fs |-> fs1, unnecessary_files |-> uf1]
    ELSE [ok |-> TRUE, err |-> "",
          fs |-> [fs1 EXCEPT ![ManifestFile] = File(old \o ManifestBody)],
          unnecessary_files |-> uf1 \cup {ManifestFile}]

\* save_manifest: create the directory chain when the leaf is missing (only
\* the leaf is recorded), fs::write the body, then record the file.
save_manifest(fsys, uf, mkdir, write) ==
    LET missing == ~exists(fsys, ManifestsLeaf)
        fs1 == IF missing THEN create_dir_all(fsys, mkdir) ELSE fsys
        uf1 == IF missing THEN uf \cup {ManifestsLeaf} ELSE uf
    IN
    IF missing /\ mkdir < ManifestDirDepth
    THEN [ok |-> FALSE, err |-> "IoError", fs |-> fs1, unnecessary_files |-> uf]
    ELSE IF write = "ok"
    THEN [ok |-> TRUE, err |-> "",
          fs |-> [fs1 EXCEPT ![ManifestFile] = File(ManifestBody)],
          unnecessary_files |-> uf1 \cup {ManifestFile}]
    ELSE [ok |-> FALSE, err |-> "IoError",
          fs |-> IF write = "truncated"
                 THEN [fs1 EXCEPT ![ManifestFile] = File(<<>>)]
                 ELSE fs1,
          unnecessary_files |-> uf1]

\* ------------------------------------------------------ the rollback ledger
RECURSIVE Orders(_)
\* The orders in which a HashSet can be iterated.
Orders(S) ==
    IF S = {} THEN {<<>>}
    ELSE UNION {{<<x>> \o o : o \in Orders(S \ {x})} : x \in S}

\* Variant of cleanup_unnecessary_files that removes the files only and then
\* empties the set.
cleanup_files_and_clear(fsys, uf, order) ==
    [fs |-> [p \in Paths |-> IF p \in uf /\ is_file(fsys, p) THEN Absent ELSE fsys[p]],
     unnecessary_files |-> {}]

\* Variant of cleanup_unnecessary_files that removes directories with their content.
cleanup_remove_all(fsys, uf, order) ==
    [fs |-> [p \in Paths |-> IF p \in uf THEN Absent ELSE fsys[p]], unnecessary_files |-> {}]

RECURSIVE cleanup_unnecessary_files(_, _, _)
\* cleanup_unnecessary_files over the snapshot `order`: files are removed,
\* directories only when empty; what was removed leaves the set.
cleanup_unnecessary_files(fsys, uf, order) ==
    IF order = <<>> THEN [fs |-> fsys, unnecessary_files |-> uf]
    ELSE LET p == Head(order) IN
         IF is_file(fsys, p)
         THEN cleanup_unnecessary_files([fsys EXCEPT ![p] = Absent], uf \ {p}, Tail(order))
         ELSE IF is_dir(fsys, p) /\ IsEmptyDir(fsys, p)
         THEN cleanup_unnecessary_files([fsys EXCEPT ![p] = Absent], uf \ {p}, Tail(order))
         ELSE cleanup_unnecessary_files(fsys, uf, Tail(order))

\* ----------------------------------------------------- the Ollama server
\* ollama_server.check_model_presence, as the default settings have it.
check_model_presence == TRUE
\* The name the session's model would have in the server's /api/tags.
ModelName == "model:latest"
\* The names /api/tags lists: the server does not know the model.
OllamaTags == {"other:latest"}
\* is_model_present_in_ollama: an exact match of one of model_names.
is_model_present_in_ollama(tags, model_names) == \E name \in tags : name \in model_names

\* ------------------------------------------------------------------ state
VARIABLES
    INTERRUPTED, INTERRUPT_REQUESTED, PROGRESS_ACTIVE, PENDING_SIGNAL,
    CONFIRMATION_REQUIRED, CLEANUP_DONE,
    listener,            \* the signal thread: [pc, sig, i, answer]
    signals,             \* [raised |-> how many were sent, pending |-> delivered, not yet iterated]
    proc,                \* [alive, code]: the process and its exit code
    remove_downloaded_on_error,
    manifest,            \* the manifest the registry serves for the model
    fs,                  \* path -> Absent | Dir | File(data)
    unnecessary_files,   \* the RollbackSet
    files_to_be_copied,  \* <<[source, named_digest, computed_digest]>>
    wf,                  \* the workflow thread: [pc, idx, body, off, hasher, result,
                         \*   named_digest, ret, label, answer]
    hist                 \* history: what the session created, committed, called

flags == <<INTERRUPTED, INTERRUPT_REQUESTED, PROGRESS_ACTIVE, PENDING_SIGNAL,
           CONFIRMATION_REQUIRED, CLEANUP_DONE>>
session == <<fs, unnecessary_files, files_to_be_copied, wf, hist>>
vars == <<flags, listener, signals, proc, remove_downloaded_on_error, manifest, session>>

\* The parameters and locals of a call the workflow thread is inside of, when
\* the call has any the model follows.
NoFrame == [none |-> TRUE]

NoResult == [done |-> FALSE, ok |-> FALSE, err |-> ""]
Ok == [done |-> TRUE, ok |-> TRUE, err |-> ""]
Err(e) == [done |-> TRUE, ok |-> FALSE, err |-> e]

\* std::process::exit(code), or main returning (code 0)
Exit(code) == proc' = [alive |-> FALSE, code |-> code]

\* The stores a session can start on: a fresh store, a store holding other
\* models, one holding the model's directory, and one where the same model is
\* already installed (its blobs and its manifest are in place).
StoreStates == {"fresh", "other_models", "model_dir", "installed"}

InitialFs(store, m) ==
    [p \in Paths |->
        IF p \in {ModelsRoot, BlobsDir} THEN Dir
        ELSE IF p \in ManifestDirs
        THEN (IF store = "fresh" THEN Absent
              ELSE IF store = "other_models" /\ p = ManifestsLeaf THEN Absent
              ELSE Dir)
        ELSE IF store = "installed" /\ p = ManifestFile THEN File(ManifestBody)
        ELSE IF store = "installed" /\ p \in {BlobPath(BlobDigests(m)[i]) : i \in 1..NumBlobs(m)}
        THEN File(CHOOSE b \in RemoteBodies : BlobPath(NamedDigest(Sha256_digest(b))) = p)
        ELSE Absent]

\* Paths that exist after a step and did not before it.
NewPaths(old, new) == {p \in Paths : ~exists(old, p) /\ exists(new, p)}
\* Files whose content a step wrote.
WrittenPaths(old, new) == {p \in Paths : is_file(new, p) /\ new[p] # old[p]}

Track(h, old, new) ==
    [h EXCEPT !.created = @ \cup NewPaths(old, new),
              !.written = (@ \cup WrittenPaths(old, new))]

InitCommon ==
    /\ INTERRUPTED = FALSE
    /\ INTERRUPT_REQUESTED = FALSE
    /\ PROGRESS_ACTIVE = FALSE
    /\ PENDING_SIGNAL = NoSignal
    /\ CLEANUP_DONE = FALSE
    /\ signals = [raised |-> 0, pending |-> {}]
    /\ proc = [alive |-> TRUE, code |-> ExitSuccess]
    /\ manifest \in Manifests
    /\ unnecessary_files = {}
    /\ files_to_be_copied = <<>>
    /\ hist = [created |-> {}, written |-> {}, committed |-> {}, consumed |-> {},
               manifest_written |-> FALSE, confirmed |-> NoSignal,
               fetch_began_interrupted |-> FALSE, calls_after_interrupt |-> {},
               success_with_request |-> FALSE, resumed_with_request |-> FALSE]

Init ==
    /\ InitCommon
    /\ CONFIRMATION_REQUIRED = FALSE
    /\ listener = [pc |-> "unspawned", sig |-> NoSignal, i |-> 0, answer |-> ""]
    /\ remove_downloaded_on_error \in BOOLEAN
    /\ \E store \in StoreStates : fs = InitialFs(store, manifest)
    /\ wf = [pc |-> "install_signal_handlers", idx |-> 0, body |-> <<>>, off |-> 0,
             hasher |-> Sha256_new, result |-> NoResult,
             named_digest |-> manifest.config, ret |-> "", label |-> NoSignal, answer |-> "",
             model_identifier |-> <<>>, returned |-> "", frame |-> NoFrame]

\* -------------------------------------------------- main.rs, ModelDownload
Alive == proc.alive
At(label) == Alive /\ wf.pc = label

\* main.rs:320  install_signal_handlers(): the listener thread starts.
main_install_signal_handlers ==
    /\ At("install_signal_handlers")
    /\ listener' = [listener EXCEPT !.pc = "idle"]
    /\ wf' = [wf EXCEPT !.pc = "set_confirmation_required"]
    /\ UNCHANGED <<flags, signals, proc, remove_downloaded_on_error, manifest,
                   fs, unnecessary_files, files_to_be_copied, hist>>

\* main.rs:324-333  model-download requires confirmation.
main_set_confirmation_required ==
    /\ At("set_confirmation_required")
    /\ CONFIRMATION_REQUIRED' = TRUE
    /\ wf' = [wf EXCEPT !.pc = "fetch_manifest"]
    /\ UNCHANGED <<INTERRUPTED, INTERRUPT_REQUESTED, PROGRESS_ACTIVE, PENDING_SIGNAL,
                   CLEANUP_DONE, listener, signals, proc, remove_downloaded_on_error,
                   manifest, fs, unnecessary_files, files_to_be_copied, hist>>

\* download_model returns `r` to main.
Return(r) == [wf EXCEPT !.pc = "match_result", !.result = r]

\* ------------------------------------ OllamaModelDownloader::download_model
\* fetch_manifest(..)? and serde_json::from_str(..)?: both return early.
download_model_fetch_manifest ==
    /\ At("fetch_manifest")
    /\ \E outcome \in {"ok", "HttpError", "ParseError"} :
          wf' = IF outcome = "ok"
                THEN [wf EXCEPT !.pc = "blob_create_temp", !.idx = 1]
                ELSE Return(Err(outcome))
    /\ UNCHANGED <<flags, listener, signals, proc, remove_downloaded_on_error, manifest,
                   fs, unnecessary_files, files_to_be_copied, hist>>

\* What dropping the NamedTempFile on an early return does to the filesystem.
drop_temp_file(fsys, temp_path) == [fsys EXCEPT ![temp_path] = Absent]

\* download_model_blob: NamedTempFile::new()
download_model_blob_create_temp ==
    /\ At("blob_create_temp")
    /\ \E created \in BOOLEAN :
          IF created
          THEN /\ fs' = [fs EXCEPT ![TmpPath(wf.idx)] = File(<<>>)]
               /\ wf' = [wf EXCEPT !.pc = "blob_track_temp", !.hasher = Sha256_new,
                                   !.body = <<>>, !.off = 0]
          ELSE /\ fs' = fs
               /\ wf' = Return(Err("IoError"))
    /\ hist' = [Track(hist, fs, fs') EXCEPT
                  !.fetch_began_interrupted = @ \/ INTERRUPTED]
    /\ UNCHANGED <<flags, listener, signals, proc, remove_downloaded_on_error, manifest,
                   unnecessary_files, files_to_be_copied>>

\* Variant of track_temp_file that records nothing.
track_temp_file_skip(uf, temp_path) == uf

\* unnecessary_files.insert(temp_path.clone())
track_temp_file(uf, temp_path) == uf \cup {temp_path}

download_model_blob_track_temp ==
    /\ At("blob_track_temp")
    /\ unnecessary_files' = track_temp_file(unnecessary_files, TmpPath(wf.idx))
    /\ wf' = [wf EXCEPT !.pc = "blob_send"]
    /\ UNCHANGED <<flags, listener, signals, proc, remove_downloaded_on_error, manifest,
                   fs, files_to_be_copied, hist>>

\* client.get(url).send()?, the status check and response.bytes()?
download_model_blob_send ==
    /\ At("blob_send")
    /\ \/ \E body \in RemoteBodies :
             /\ wf' = [wf EXCEPT !.pc = "blob_write_chunk", !.body = body]
             /\ fs' = fs
       \/ /\ wf' = Return(Err("HttpError"))
          /\ fs' = drop_temp_file(fs, TmpPath(wf.idx))
    /\ UNCHANGED <<flags, listener, signals, proc, remove_downloaded_on_error, manifest,
                   unnecessary_files, files_to_be_copied, hist>>

\* temp_file.write_all(chunk)
write_all(fsys, temp_path, chunk) ==
    [fsys EXCEPT ![temp_path] = File(Append(fsys[temp_path].data, chunk))]

\* One pass of `for chunk in bytes.chunks(8192)`; after the last chunk the
\* digest is finalized, the file persisted and the triple queued.
download_model_blob_write_chunk ==
    /\ At("blob_write_chunk")
    /\ wf.off < Len(wf.body)
    /\ \E written \in BOOLEAN :
          IF written
          THEN /\ fs' = write_all(fs, TmpPath(wf.idx), wf.body[wf.off + 1])
               /\ wf' = [wf EXCEPT !.off = @ + 1,
                                   !.hasher = Sha256_update(@, wf.body[wf.off + 1])]
          ELSE /\ fs' = drop_temp_file(fs, TmpPath(wf.idx))
               /\ wf' = Return(Err("IoError"))
    /\ hist' = Track(hist, fs, fs')
    /\ UNCHANGED <<flags, listener, signals, proc, remove_downloaded_on_error, manifest,
                   unnecessary_files, files_to_be_copied>>

\* The step after a blob is staged: the next layer, or the save loop.
after_blob_staged(idx) ==
    IF idx < NumBlobs(manifest)
    THEN [wf EXCEPT !.pc = "blob_create_temp", !.idx = idx + 1]
    ELSE [wf EXCEPT !.pc = "save_blob", !.idx = 1]

\* Variant of download_model_blob_persist that queues the newest blob first.
download_model_blob_persist_prepend ==
    /\ At("blob_write_chunk")
    /\ wf.off = Len(wf.body)
    /\ files_to_be_copied' =
          <<[source |-> TmpPath(wf.idx), named_digest |-> BlobDigests(manifest)[wf.idx],
             computed_digest |-> wf.hasher]>> \o files_to_be_copied
    /\ wf' = after_blob_staged(wf.idx)
    /\ UNCHANGED <<flags, listener, signals, proc, remove_downloaded_on_error, manifest,
                   fs, unnecessary_files, hist>>

\* bytes_read == 0: Ok((path, digest)); files_to_be_copied.push(..)
download_model_blob_persist ==
    /\ At("blob_write_chunk")
    /\ wf.off = Len(wf.body)
    /\ files_to_be_copied' = Append(files_to_be_copied,
          [source |-> TmpPath(wf.idx), named_digest |-> BlobDigests(manifest)[wf.idx],
           computed_digest |-> wf.hasher])
    /\ wf' = after_blob_staged(wf.idx)
    /\ UNCHANGED <<flags, listener, signals, proc, remove_downloaded_on_error, manifest,
                   fs, unnecessary_files, hist>>

\* Variant of after_save_blob that goes on to the next blob whatever the result.
after_save_blob_ignore_error(r) == [wf EXCEPT !.pc = "remove_source"]

\* The save loop's match on save_blob's result (download_model, `match`).
after_save_blob(r) ==
    IF r.ok
    THEN [wf EXCEPT !.pc = "remove_source"]
    ELSE [wf EXCEPT !.pc = "save_blob_failed", !.result = [NoResult EXCEPT !.err = r.err]]

\* self_mut.save_blob(&source, &named_digest, &computed_digest)
download_model_save_blob ==
    /\ At("save_blob")
    /\ LET f == files_to_be_copied[wf.idx] IN
       \E copy \in CopyOutcomes(fs[f.source].data) :
          LET r == save_blob(fs, unnecessary_files, f.source, f.named_digest,
                             f.computed_digest, copy)
          IN /\ fs' = r.fs
             /\ unnecessary_files' = r.unnecessary_files
             /\ wf' = after_save_blob(r)
             /\ hist' = [Track(hist, fs, fs') EXCEPT
                   !.committed = IF r.ok THEN @ \cup {BlobPath(f.named_digest)} ELSE @,
                   !.consumed = IF r.ok THEN @ \cup {f.source} ELSE @,
                   !.calls_after_interrupt =
                        IF hist.fetch_began_interrupted THEN @ \cup {"save_blob"} ELSE @]
    /\ UNCHANGED <<flags, listener, signals, proc, remove_downloaded_on_error, manifest,
                   files_to_be_copied>>

\* Variant of download_model_remove_source that leaves the staged file.
download_model_remove_source_skip ==
    /\ At("remove_source")
    /\ wf' = IF wf.idx < Len(files_to_be_copied)
             THEN [wf EXCEPT !.pc = "save_blob", !.idx = @ + 1]
             ELSE [wf EXCEPT !.pc = "save_manifest"]
    /\ UNCHANGED <<flags, listener, signals, proc, remove_downloaded_on_error, manifest,
                   fs, unnecessary_files, files_to_be_copied, hist>>

\* Ok(_) => { let _ = fs::remove_file(&source); }
download_model_remove_source ==
    /\ At("remove_source")
    /\ fs' = [fs EXCEPT ![files_to_be_copied[wf.idx].source] = Absent]
    /\ wf' = IF wf.idx < Len(files_to_be_copied)
             THEN [wf EXCEPT !.pc = "save_blob", !.idx = @ + 1]
             ELSE [wf EXCEPT !.pc = "save_manifest"]
    /\ UNCHANGED <<flags, listener, signals, proc, remove_downloaded_on_error, manifest,
                   unnecessary_files, files_to_be_copied, hist>>

\* Variant of the save_blob error arm that rolls back only under the policy.
download_model_save_blob_failed_by_policy ==
    /\ At("save_blob_failed")
    /\ \E order \in Orders(unnecessary_files) :
          LET r == IF remove_downloaded_on_error
                   THEN cleanup_unnecessary_files(fs, unnecessary_files, order)
                   ELSE [fs |-> fs, unnecessary_files |-> unnecessary_files]
          IN /\ fs' = r.fs
             /\ unnecessary_files' = r.unnecessary_files
    /\ wf' = Return(Err(wf.result.err))
    /\ UNCHANGED <<flags, listener, signals, proc, remove_downloaded_on_error, manifest,
                   files_to_be_copied, hist>>

\* Err(e) => { self_mut.cleanup_unnecessary_files(); return Err(e); }
download_model_save_blob_failed ==
    /\ At("save_blob_failed")
    /\ \E order \in Orders(unnecessary_files) :
          LET r == cleanup_unnecessary_files(fs, unnecessary_files, order)
          IN /\ fs' = r.fs
             /\ unnecessary_files' = r.unnecessary_files
    /\ wf' = Return(Err(wf.result.err))
    /\ UNCHANGED <<flags, listener, signals, proc, remove_downloaded_on_error, manifest,
                   files_to_be_copied, hist>>

\* History: the manifest is written after every referenced blob was committed
\* while a recorded interrupt request is still unanswered.
ManifestCommittedWithRequest(ok) ==
    /\ ok
    /\ INTERRUPT_REQUESTED
    /\ \A i \in 1..NumBlobs(manifest) : BlobPath(BlobDigests(manifest)[i]) \in hist.committed

\* The match on save_manifest's result.
after_save_manifest(r) ==
    IF r.ok
    THEN [wf EXCEPT !.pc = "clear"]
    ELSE [wf EXCEPT !.pc = "save_manifest_failed", !.result = [NoResult EXCEPT !.err = r.err]]

\* self_mut.save_manifest(&manifest_json, &model, &tag)
download_model_save_manifest ==
    /\ At("save_manifest")
    /\ \E mkdir \in MkdirOutcomes(fs), write \in WriteOutcomes :
          LET r == save_manifest(fs, unnecessary_files, mkdir, write)
          IN /\ fs' = r.fs
             /\ unnecessary_files' = r.unnecessary_files
             /\ wf' = after_save_manifest(r)
             /\ hist' = [Track(hist, fs, fs') EXCEPT
                   !.manifest_written = r.ok,
                   !.success_with_request = @ \/ ManifestCommittedWithRequest(r.ok),
                   !.calls_after_interrupt =
                        IF hist.fetch_began_interrupted THEN @ \cup {"save_manifest"} ELSE @]
    /\ UNCHANGED <<flags, listener, signals, proc, remove_downloaded_on_error, manifest,
                   files_to_be_copied>>

\* Err(e) => { if remove_downloaded_on_error { cleanup }; return Err(e); }
download_model_save_manifest_failed ==
    /\ At("save_manifest_failed")
    /\ \E order \in Orders(unnecessary_files) :
          LET r == IF remove_downloaded_on_error
                   THEN cleanup_unnecessary_files(fs, unnecessary_files, order)
                   ELSE [fs |-> fs, unnecessary_files |-> unnecessary_files]
          IN /\ fs' = r.fs
             /\ unnecessary_files' = r.unnecessary_files
    /\ wf' = Return(Err(wf.result.err))
    /\ UNCHANGED <<flags, listener, signals, proc, remove_downloaded_on_error, manifest,
                   files_to_be_copied, hist>>

\* Variant of clear that leaves the ledger as it is.
clear_keep(uf) == uf

\* self_mut.unnecessary_files.clear()
clear(uf) == {}

\* Clear the ledger on success and return Ok(true).
download_model_clear ==
    /\ At("clear")
    /\ unnecessary_files' = clear(unnecessary_files)
    /\ wf' = Return(Ok)
    /\ UNCHANGED <<flags, listener, signals, proc, remove_downloaded_on_error, manifest,
                   fs, files_to_be_copied, hist>>

\* main.rs:490-502: Ok => set_cleanup_done(); Err => exit(1) unless
\* is_interrupted(), then set_cleanup_done().
main_match_result ==
    /\ At("match_result")
    /\ IF wf.result.ok \/ INTERRUPTED
       THEN /\ CLEANUP_DONE' = TRUE
            /\ wf' = [wf EXCEPT !.pc = "return"]
            /\ proc' = proc
       ELSE /\ Exit(ExitFailure)
            /\ UNCHANGED <<CLEANUP_DONE, wf>>
    /\ UNCHANGED <<INTERRUPTED, INTERRUPT_REQUESTED, PROGRESS_ACTIVE, PENDING_SIGNAL,
                   CONFIRMATION_REQUIRED, listener, signals, remove_downloaded_on_error,
                   manifest, fs, unnecessary_files, files_to_be_copied, hist>>

\* main returns: the process exits with status 0.
main_return ==
    /\ At("return")
    /\ Exit(ExitSuccess)
    /\ UNCHANGED <<flags, listener, signals, remove_downloaded_on_error, manifest, session>>

\* ------------------------------------------------------- signal_handler.rs
\* Variant of SignalExitCode that uses the SIGINT code for both signals.
SignalExitCode_sigint_only(sig) == ExitSigint

SignalExitCode(sig) == IF sig = SIGTERM THEN ExitSigterm ELSE ExitSigint

LAt(label) == Alive /\ listener.pc = label

\* A confirmation is being handled: the listener's prompt is on the terminal
\* (signal_handler.rs:207, 229) or confirm_pending_interrupt has taken the
\* request and has not returned yet (:63-78).
Confirming ==
    \/ listener.pc \in {"prompt", "answered"}
    \/ wf.pc \in {"confirm_swap_pending", "confirm_prompt", "confirm_answered"}

\* The environment sends SIGINT or SIGTERM once the handlers are installed:
\* MaxSignals of them at any time, and one more during a confirmation.
raise_signal ==
    /\ Alive
    /\ listener.pc # "unspawned"
    /\ signals.raised < MaxSignals + (IF Confirming THEN 1 ELSE 0)
    /\ \E sig \in {SIGINT, SIGTERM} :
          signals' = [raised |-> signals.raised + 1, pending |-> signals.pending \cup {sig}]
    /\ UNCHANGED <<flags, listener, proc, remove_downloaded_on_error, manifest, session>>

\* for sig in signals.forever()
listener_next_signal ==
    /\ LAt("idle")
    /\ \E sig \in signals.pending :
          /\ signals' = [signals EXCEPT !.pending = @ \ {sig}]
          /\ listener' = [listener EXCEPT !.pc = "check_confirmation", !.sig = sig]
    /\ UNCHANGED <<flags, proc, remove_downloaded_on_error, manifest, session>>

\* Variant of listener_check_confirmation that goes on to the prompt also
\* when confirmation is not required.
listener_check_confirmation_always_confirm ==
    /\ LAt("check_confirmation")
    /\ listener' = [listener EXCEPT !.pc = "check_progress"]
    /\ UNCHANGED <<flags, signals, proc, remove_downloaded_on_error, manifest, session>>

\* if !CONFIRMATION_REQUIRED.load() { exit(130 | 143) }
listener_check_confirmation ==
    /\ LAt("check_confirmation")
    /\ IF CONFIRMATION_REQUIRED
       THEN /\ listener' = [listener EXCEPT !.pc = "check_progress"]
            /\ proc' = proc
       ELSE /\ Exit(SignalExitCode(listener.sig))
            /\ listener' = listener
    /\ UNCHANGED <<flags, signals, remove_downloaded_on_error, manifest, session>>

\* Variant of listener_check_progress that prompts whatever PROGRESS_ACTIVE is.
listener_check_progress_always_prompt ==
    /\ LAt("check_progress")
    /\ listener' = [listener EXCEPT !.pc = "prompt"]
    /\ UNCHANGED <<flags, signals, proc, remove_downloaded_on_error, manifest, session>>

\* if PROGRESS_ACTIVE.load() { store pending; continue } else prompt
listener_check_progress ==
    /\ LAt("check_progress")
    /\ listener' = [listener EXCEPT !.pc = IF PROGRESS_ACTIVE THEN "store_pending" ELSE "prompt"]
    /\ UNCHANGED <<flags, signals, proc, remove_downloaded_on_error, manifest, session>>

\* PENDING_SIGNAL.store(sig)
listener_store_pending ==
    /\ LAt("store_pending")
    /\ PENDING_SIGNAL' = listener.sig
    /\ listener' = [listener EXCEPT !.pc = "store_requested"]
    /\ UNCHANGED <<INTERRUPTED, INTERRUPT_REQUESTED, PROGRESS_ACTIVE, CONFIRMATION_REQUIRED,
                   CLEANUP_DONE, signals, proc, remove_downloaded_on_error, manifest, session>>

\* INTERRUPT_REQUESTED.store(true); continue
listener_store_requested ==
    /\ LAt("store_requested")
    /\ INTERRUPT_REQUESTED' = TRUE
    /\ listener' = [listener EXCEPT !.pc = "idle"]
    /\ UNCHANGED <<INTERRUPTED, PENDING_SIGNAL, PROGRESS_ACTIVE, CONFIRMATION_REQUIRED,
                   CLEANUP_DONE, signals, proc, remove_downloaded_on_error, manifest, session>>

\* Variant of prompt_for_interrupt_confirmation that takes silence for consent.
prompt_timeout_confirms(input) ==
    input = "timeout" \/ input \in {"y", "yes", "YES"}

\* prompt_for_interrupt_confirmation: y/yes, or anything else / the timeout.
\* What the prompt gets within its 10 s: a line from stdin, or nothing.
PromptAnswers == {"y", "YES", "n", "timeout"}
to_lowercase(input) == IF input = "YES" THEN "yes" ELSE input
\* poll() timed out => false; otherwise matches!(response, "y" | "yes")
prompt_for_interrupt_confirmation(input) ==
    input # "timeout" /\ to_lowercase(input) \in {"y", "yes"}

\* The listener's prompt_for_interrupt_confirmation(..) gets its answer.
listener_prompt ==
    /\ LAt("prompt")
    /\ \E input \in PromptAnswers :
          listener' = [listener EXCEPT !.pc = "answered", !.answer = input]
    /\ UNCHANGED <<flags, signals, proc, remove_downloaded_on_error, manifest, session>>

\* if prompt_for_interrupt_confirmation(..) { set_interrupted(); wait.. }
listener_answered ==
    /\ LAt("answered")
    /\ IF prompt_for_interrupt_confirmation(listener.answer)
       THEN /\ INTERRUPTED' = TRUE
            /\ listener' = [listener EXCEPT !.pc = "wait_for_cleanup", !.i = 0, !.answer = ""]
            /\ hist' = [hist EXCEPT !.confirmed = listener.sig]
       ELSE /\ listener' = [listener EXCEPT !.pc = "idle", !.answer = ""]
            /\ UNCHANGED <<INTERRUPTED, hist>>
    /\ UNCHANGED <<INTERRUPT_REQUESTED, PENDING_SIGNAL, PROGRESS_ACTIVE, CONFIRMATION_REQUIRED,
                   CLEANUP_DONE, signals, proc, remove_downloaded_on_error, manifest,
                   fs, unnecessary_files, files_to_be_copied, wf>>

\* Variant of wait_for_cleanup_completion that exits without waiting.
wait_for_cleanup_completion_no_wait ==
    /\ LAt("wait_for_cleanup")
    /\ Exit(SignalExitCode(listener.sig))
    /\ UNCHANGED <<flags, listener, signals, remove_downloaded_on_error, manifest, session>>

\* wait_for_cleanup_completion: poll CLEANUP_DONE, sleep, exit at the end.
wait_for_cleanup_completion ==
    /\ LAt("wait_for_cleanup")
    /\ IF listener.i < MaxPolls /\ ~CLEANUP_DONE
       THEN /\ listener' = [listener EXCEPT !.i = @ + 1]
            /\ proc' = proc
       ELSE /\ Exit(SignalExitCode(listener.sig))
            /\ listener' = listener
    /\ UNCHANGED <<flags, signals, remove_downloaded_on_error, manifest, session>>

\* ------------------------------------------------- downloader/utils.rs API
\* A caller of the public functions of downloader::utils: it owns one
\* RollbackSet and calls download_model_blob, save_blob, save_manifest and
\* cleanup_unnecessary_files on it, with the listener thread running.
InterruptedByUser == "Download interrupted by user"

\* The caller gets `r` back from a utils function.
LibReturn(r) == [wf EXCEPT !.pc = "lib_idle", !.result = r]

lib_download_model_blob ==
    /\ At("lib_idle")
    /\ ~wf.result.done
    /\ files_to_be_copied = <<>>
    /\ ~exists(fs, TmpPath(1))
    /\ wf' = [wf EXCEPT !.pc = "u_is_interrupted", !.idx = Len(files_to_be_copied) + 1,
                        !.named_digest = manifest.config, !.result = NoResult]
    /\ hist' = [hist EXCEPT !.fetch_began_interrupted = @ \/ INTERRUPTED]
    /\ UNCHANGED <<flags, listener, signals, proc, remove_downloaded_on_error, manifest,
                   fs, unnecessary_files, files_to_be_copied>>

\* utils.rs:170  if is_interrupted() { return Err(..) }, else utils.rs:176
utils_blob_is_interrupted ==
    /\ At("u_is_interrupted")
    /\ wf' = IF INTERRUPTED
             THEN LibReturn(Err(InterruptedByUser))
             ELSE [wf EXCEPT !.pc = "confirm_required", !.ret = "before_transfer"]
    /\ UNCHANGED <<flags, listener, signals, proc, remove_downloaded_on_error, manifest,
                   fs, unnecessary_files, files_to_be_copied, hist>>

\* confirm_pending_interrupt returns `should_exit` to download_model_blob:
\* before the transfer (utils.rs:176-181) or inside the loop (utils.rs:233-240),
\* where returning drops the progress guard and the NamedTempFile.
confirm_return(should_exit) ==
    IF wf.ret = "call"
    THEN /\ wf' = [wf EXCEPT !.pc = "call_idle", !.answer = "",
                              !.returned = IF should_exit THEN "true" ELSE "false"]
         /\ UNCHANGED <<fs, PROGRESS_ACTIVE>>
    ELSE IF ~should_exit
    THEN /\ wf' = [wf EXCEPT !.pc = IF wf.ret = "before_transfer"
                                    THEN "u_create_temp" ELSE "u_read_chunk",
                              !.answer = ""]
         /\ UNCHANGED <<fs, PROGRESS_ACTIVE>>
    ELSE /\ wf' = [LibReturn(Err(InterruptedByUser)) EXCEPT !.answer = ""]
         /\ IF wf.ret = "before_transfer"
            THEN UNCHANGED <<fs, PROGRESS_ACTIVE>>
            ELSE /\ fs' = drop_temp_file(fs, TmpPath(wf.idx))
                 /\ PROGRESS_ACTIVE' = FALSE

\* if !CONFIRMATION_REQUIRED.load() { return false }
confirm_load_required ==
    /\ At("confirm_required")
    /\ IF CONFIRMATION_REQUIRED
       THEN /\ wf' = [wf EXCEPT !.pc = "confirm_swap_requested"]
            /\ UNCHANGED <<fs, PROGRESS_ACTIVE>>
       ELSE confirm_return(FALSE)
    /\ UNCHANGED <<INTERRUPTED, INTERRUPT_REQUESTED, PENDING_SIGNAL, CONFIRMATION_REQUIRED,
                   CLEANUP_DONE, listener, signals, proc, remove_downloaded_on_error,
                   manifest, unnecessary_files, files_to_be_copied, hist>>

\* Variant of confirm_swap_requested that takes the pending signal first.
confirm_swap_requested_clears_pending ==
    /\ At("confirm_swap_requested")
    /\ INTERRUPT_REQUESTED' = FALSE
    /\ PENDING_SIGNAL' = NoSignal
    /\ IF INTERRUPT_REQUESTED
       THEN /\ wf' = [wf EXCEPT !.pc = "confirm_swap_pending"]
            /\ UNCHANGED <<fs, PROGRESS_ACTIVE>>
       ELSE confirm_return(FALSE)
    /\ UNCHANGED <<INTERRUPTED, CONFIRMATION_REQUIRED,
                   CLEANUP_DONE, listener, signals, proc, remove_downloaded_on_error,
                   manifest, unnecessary_files, files_to_be_copied, hist>>

\* if !INTERRUPT_REQUESTED.swap(false) { return false }
confirm_swap_requested ==
    /\ At("confirm_swap_requested")
    /\ INTERRUPT_REQUESTED' = FALSE
    /\ IF INTERRUPT_REQUESTED
       THEN /\ wf' = [wf EXCEPT !.pc = "confirm_swap_pending"]
            /\ UNCHANGED <<fs, PROGRESS_ACTIVE>>
       ELSE confirm_return(FALSE)
    /\ UNCHANGED <<INTERRUPTED, PENDING_SIGNAL, CONFIRMATION_REQUIRED,
                   CLEANUP_DONE, listener, signals, proc, remove_downloaded_on_error,
                   manifest, unnecessary_files, files_to_be_copied, hist>>

\* match signal_id { SIGTERM => "Termination", _ => "Interrupt" }
prompt_label(signal_id) == IF signal_id = SIGTERM THEN SIGTERM ELSE SIGINT

\* let signal_id = PENDING_SIGNAL.swap(0)
confirm_swap_pending ==
    /\ At("confirm_swap_pending")
    /\ PENDING_SIGNAL' = NoSignal
    /\ wf' = [wf EXCEPT !.pc = "confirm_prompt", !.label = prompt_label(PENDING_SIGNAL)]
    /\ UNCHANGED <<INTERRUPTED, INTERRUPT_REQUESTED, PROGRESS_ACTIVE, CONFIRMATION_REQUIRED,
                   CLEANUP_DONE, listener, signals, proc, remove_downloaded_on_error,
                   manifest, fs, unnecessary_files, files_to_be_copied, hist>>

\* prompt_for_interrupt_confirmation(label) gets its answer.
confirm_prompt ==
    /\ At("confirm_prompt")
    /\ \E input \in PromptAnswers :
          wf' = [wf EXCEPT !.pc = "confirm_answered", !.answer = input]
    /\ UNCHANGED <<flags, listener, signals, proc, remove_downloaded_on_error, manifest,
                   fs, unnecessary_files, files_to_be_copied, hist>>

\* if prompt_for_interrupt_confirmation(label) { set_interrupted(); true } else { false }
confirm_answered ==
    /\ At("confirm_answered")
    /\ LET yes == prompt_for_interrupt_confirmation(wf.answer) IN
          /\ INTERRUPTED' = (INTERRUPTED \/ yes)
          /\ confirm_return(yes)
          /\ hist' = IF yes
                     THEN [hist EXCEPT !.confirmed = wf.label]
                     ELSE [hist EXCEPT !.resumed_with_request =
                              @ \/ INTERRUPT_REQUESTED \/ PENDING_SIGNAL # NoSignal]
    /\ UNCHANGED <<INTERRUPT_REQUESTED, PENDING_SIGNAL, CONFIRMATION_REQUIRED,
                   CLEANUP_DONE, listener, signals, proc, remove_downloaded_on_error,
                   manifest, unnecessary_files, files_to_be_copied>>

\* utils.rs:184  NamedTempFile::new()
utils_blob_create_temp ==
    /\ At("u_create_temp")
    /\ \E created \in BOOLEAN :
          IF created
          THEN /\ fs' = [fs EXCEPT ![TmpPath(wf.idx)] = File(<<>>)]
               /\ wf' = [wf EXCEPT !.pc = "u_track_temp", !.hasher = Sha256_new,
                                   !.body = <<>>, !.off = 0]
          ELSE /\ fs' = fs
               /\ wf' = LibReturn(Err("IoError"))
    /\ hist' = Track(hist, fs, fs')
    /\ UNCHANGED <<flags, listener, signals, proc, remove_downloaded_on_error, manifest,
                   unnecessary_files, files_to_be_copied>>

\* utils.rs:187  unnecessary_files.insert(temp_path.clone())
utils_blob_track_temp ==
    /\ At("u_track_temp")
    /\ unnecessary_files' = track_temp_file(unnecessary_files, TmpPath(wf.idx))
    /\ wf' = [wf EXCEPT !.pc = "u_send"]
    /\ UNCHANGED <<flags, listener, signals, proc, remove_downloaded_on_error, manifest,
                   fs, files_to_be_copied, hist>>

\* utils.rs:189-195  client.get(url).send()? and the status check
utils_blob_send ==
    /\ At("u_send")
    /\ \E body \in RemoteBodies, ok \in BOOLEAN :
          IF ok
          THEN /\ wf' = [wf EXCEPT !.pc = "u_progress", !.body = body]
               /\ fs' = fs
          ELSE /\ wf' = LibReturn(Err("HttpError"))
               /\ fs' = drop_temp_file(fs, TmpPath(wf.idx))
    /\ UNCHANGED <<flags, listener, signals, proc, remove_downloaded_on_error, manifest,
                   unnecessary_files, files_to_be_copied, hist>>

\* utils.rs:215  set_progress_active(true); the guard resets it on drop
utils_blob_progress_active ==
    /\ At("u_progress")
    /\ PROGRESS_ACTIVE' = TRUE
    /\ wf' = [wf EXCEPT !.pc = "u_loop_is_interrupted"]
    /\ UNCHANGED <<INTERRUPTED, INTERRUPT_REQUESTED, PENDING_SIGNAL, CONFIRMATION_REQUIRED,
                   CLEANUP_DONE, listener, signals, proc, remove_downloaded_on_error,
                   manifest, fs, unnecessary_files, files_to_be_copied, hist>>

\* utils.rs:224-230  the checkpoint at the top of the chunk loop
utils_blob_loop_is_interrupted ==
    /\ At("u_loop_is_interrupted")
    /\ IF INTERRUPTED
       THEN /\ wf' = LibReturn(Err(InterruptedByUser))
            /\ fs' = drop_temp_file(fs, TmpPath(wf.idx))
            /\ PROGRESS_ACTIVE' = FALSE
       ELSE /\ wf' = [wf EXCEPT !.pc = "u_loop_interrupt_requested"]
            /\ UNCHANGED <<fs, PROGRESS_ACTIVE>>
    /\ UNCHANGED <<INTERRUPTED, INTERRUPT_REQUESTED, PENDING_SIGNAL, CONFIRMATION_REQUIRED,
                   CLEANUP_DONE, listener, signals, proc, remove_downloaded_on_error,
                   manifest, unnecessary_files, files_to_be_copied, hist>>

\* utils.rs:232-233  if interrupt_requested() { pb.suspend(confirm_pending_interrupt) }
utils_blob_loop_interrupt_requested ==
    /\ At("u_loop_interrupt_requested")
    /\ wf' = IF INTERRUPT_REQUESTED
             THEN [wf EXCEPT !.pc = "confirm_required", !.ret = "loop"]
             ELSE [wf EXCEPT !.pc = "u_read_chunk"]
    /\ UNCHANGED <<flags, listener, signals, proc, remove_downloaded_on_error, manifest,
                   fs, unnecessary_files, files_to_be_copied, hist>>

\* utils.rs:243-251  read a chunk, hash it, write it; `?` on either error
utils_blob_read_chunk ==
    /\ At("u_read_chunk")
    /\ wf.off < Len(wf.body)
    /\ \E ok \in BOOLEAN :
          IF ok
          THEN /\ fs' = write_all(fs, TmpPath(wf.idx), wf.body[wf.off + 1])
               /\ wf' = [wf EXCEPT !.pc = "u_loop_is_interrupted", !.off = @ + 1,
                                   !.hasher = Sha256_update(@, wf.body[wf.off + 1])]
               /\ PROGRESS_ACTIVE' = PROGRESS_ACTIVE
          ELSE /\ fs' = drop_temp_file(fs, TmpPath(wf.idx))
               /\ wf' = LibReturn(Err("IoError"))
               /\ PROGRESS_ACTIVE' = FALSE
    /\ hist' = Track(hist, fs, fs')
    /\ UNCHANGED <<INTERRUPTED, INTERRUPT_REQUESTED, PENDING_SIGNAL, CONFIRMATION_REQUIRED,
                   CLEANUP_DONE, listener, signals, proc, remove_downloaded_on_error,
                   manifest, unnecessary_files, files_to_be_copied>>

\* Variant of utils_blob_persist without the ProgressGuard: the flag is left
\* as it was when the function returns.
utils_blob_persist_no_guard ==
    /\ At("u_read_chunk")
    /\ wf.off = Len(wf.body)
    /\ files_to_be_copied' = Append(files_to_be_copied,
          [source |-> TmpPath(wf.idx), named_digest |-> wf.named_digest,
           computed_digest |-> wf.hasher])
    /\ wf' = LibReturn(Ok)
    /\ UNCHANGED <<flags, listener, signals, proc, remove_downloaded_on_error,
                   manifest, fs, unnecessary_files, hist>>

\* utils.rs:244-266  bytes_read == 0: finish, finalize, keep(), Ok((path, digest))
utils_blob_persist ==
    /\ At("u_read_chunk")
    /\ wf.off = Len(wf.body)
    /\ files_to_be_copied' = Append(files_to_be_copied,
          [source |-> TmpPath(wf.idx), named_digest |-> wf.named_digest,
           computed_digest |-> wf.hasher])
    /\ PROGRESS_ACTIVE' = FALSE
    /\ wf' = LibReturn(Ok)
    /\ UNCHANGED <<INTERRUPTED, INTERRUPT_REQUESTED, PENDING_SIGNAL, CONFIRMATION_REQUIRED,
                   CLEANUP_DONE, listener, signals, proc, remove_downloaded_on_error,
                   manifest, fs, unnecessary_files, hist>>

\* utils::save_blob on one of the staged files.
lib_save_blob ==
    /\ At("lib_idle")
    /\ wf.result.done
    /\ \E k \in 1..Len(files_to_be_copied) :
          LET f == files_to_be_copied[k] IN
          /\ is_file(fs, f.source)
          /\ \E copy \in CopyOutcomes(fs[f.source].data) :
                LET r == save_blob(fs, unnecessary_files, f.source, f.named_digest,
                                   f.computed_digest, copy)
                IN /\ fs' = r.fs
                   /\ unnecessary_files' = r.unnecessary_files
                   /\ wf' = [LibReturn(IF r.ok THEN Ok ELSE Err(r.err)) EXCEPT !.idx = k]
                   /\ hist' = [Track(hist, fs, fs') EXCEPT
                         !.committed = IF r.ok THEN @ \cup {BlobPath(f.named_digest)} ELSE @,
                         !.consumed = IF r.ok THEN @ \cup {f.source} ELSE @,
                         !.calls_after_interrupt =
                              IF hist.fetch_began_interrupted THEN @ \cup {"save_blob"} ELSE @]
    /\ UNCHANGED <<flags, listener, signals, proc, remove_downloaded_on_error, manifest,
                   files_to_be_copied>>

\* utils::save_manifest
lib_save_manifest ==
    /\ At("lib_idle")
    /\ wf.result.done
    /\ \E mkdir \in MkdirOutcomes(fs), write \in WriteOutcomes :
          LET r == save_manifest(fs, unnecessary_files, mkdir, write)
          IN /\ fs' = r.fs
             /\ unnecessary_files' = r.unnecessary_files
             /\ wf' = LibReturn(IF r.ok THEN Ok ELSE Err(r.err))
             /\ hist' = [Track(hist, fs, fs') EXCEPT
                   !.manifest_written = r.ok,
                   !.success_with_request = @ \/ ManifestCommittedWithRequest(r.ok)]
    /\ UNCHANGED <<flags, listener, signals, proc, remove_downloaded_on_error, manifest,
                   files_to_be_copied>>

\* utils::cleanup_unnecessary_files
lib_cleanup_unnecessary_files ==
    /\ At("lib_idle")
    /\ wf.result.done
    /\ \E order \in Orders(unnecessary_files) :
          LET r == cleanup_unnecessary_files(fs, unnecessary_files, order)
          IN /\ fs' = r.fs
             /\ unnecessary_files' = r.unnecessary_files
    /\ wf' = LibReturn(Ok)
    /\ UNCHANGED <<flags, listener, signals, proc, remove_downloaded_on_error, manifest,
                   files_to_be_copied, hist>>

\* ------------------------------------------ signal_handler.rs, public API
\* set_confirmation_required(required), called between two other calls.
call_set_confirmation_required ==
    /\ At("call_idle")
    /\ \E required \in BOOLEAN : CONFIRMATION_REQUIRED' = required
    /\ UNCHANGED <<INTERRUPTED, INTERRUPT_REQUESTED, PROGRESS_ACTIVE, PENDING_SIGNAL,
                   CLEANUP_DONE, listener, signals, proc, remove_downloaded_on_error,
                   manifest, session>>

\* set_progress_active(active)
call_set_progress_active ==
    /\ At("call_idle")
    /\ \E active \in BOOLEAN : PROGRESS_ACTIVE' = active
    /\ UNCHANGED <<INTERRUPTED, INTERRUPT_REQUESTED, CONFIRMATION_REQUIRED, PENDING_SIGNAL,
                   CLEANUP_DONE, listener, signals, proc, remove_downloaded_on_error,
                   manifest, session>>

\* confirm_pending_interrupt() is entered; its steps are the confirm_* actions.
call_confirm_pending_interrupt ==
    /\ At("call_idle")
    /\ wf' = [wf EXCEPT !.pc = "confirm_required", !.ret = "call", !.returned = ""]
    /\ UNCHANGED <<flags, listener, signals, proc, remove_downloaded_on_error, manifest,
                   fs, unnecessary_files, files_to_be_copied, hist>>

\* ------------------------------- HuggingFaceModelDownloader::download_model
\* Characters of an identifier: a name character and the two separators.
IdChars == {"u", "/", ":"}
Identifiers == UNION {[1..n -> IdChars] : n \in 0..MaxIdLen}

\* str::contains(c)
contains(s, c) == \E i \in 1..Len(s) : s[i] = c
\* Index of the first occurrence of c in s (s contains c).
find(s, c) == CHOOSE i \in 1..Len(s) : s[i] = c /\ \A j \in 1..(i - 1) : s[j] # c

\* str::split(sep).collect(): the pieces between the separators, empty ones
\* included; a string without the separator is its only piece.
RECURSIVE split(_, _)
split(s, sep) ==
    IF ~contains(s, sep)
    THEN <<s>>
    ELSE <<SubSeq(s, 1, find(s, sep) - 1)>> \o split(SubSeq(s, find(s, sep) + 1, Len(s)), sep)

\* let (model_repo, quant) = if contains(':') { split(':') parts[0], parts[1] } else { .. }
hf_model_repo(model_identifier) ==
    IF contains(model_identifier, ":") THEN split(model_identifier, ":")[1] ELSE model_identifier

\* Variant of hf_identifier_ok that takes any identifier with a '/'.
hf_identifier_ok_at_least_two(model_identifier) ==
    Len(split(hf_model_repo(model_identifier), "/")) >= 2

\* let parts = model_repo.split('/').collect(); parts.len() == 2
hf_identifier_ok(model_identifier) ==
    Len(split(hf_model_repo(model_identifier), "/")) = 2

\* if parts.len() != 2 { return Err(InvalidIdentifier(..)) }, before
\* fetch_manifest.
hf_download_model_validate ==
    /\ At("hf_validate")
    /\ wf' = IF hf_identifier_ok(wf.model_identifier)
             THEN [wf EXCEPT !.pc = "fetch_manifest"]
             ELSE Return(Err("InvalidIdentifier"))
    /\ UNCHANGED <<flags, listener, signals, proc, remove_downloaded_on_error, manifest,
                   fs, unnecessary_files, files_to_be_copied, hist>>

\* ------------------------------------------------------- specifications
ListenerNext ==
    \/ raise_signal
    \/ listener_next_signal
    \/ listener_check_confirmation
    \/ listener_check_progress
    \/ listener_prompt
    \/ listener_answered
    \/ wait_for_cleanup_completion

\* The deferral branch runs only while a progress bar is active.
ListenerDeferred ==
    \/ listener_store_pending
    \/ listener_store_requested

Next ==
    \/ main_install_signal_handlers
    \/ main_set_confirmation_required
    \/ download_model_fetch_manifest
    \/ download_model_blob_create_temp
    \/ download_model_blob_track_temp
    \/ download_model_blob_send
    \/ download_model_blob_write_chunk
    \/ download_model_blob_persist
    \/ download_model_save_blob
    \/ download_model_remove_source
    \/ download_model_save_blob_failed
    \/ download_model_save_manifest
    \/ download_model_save_manifest_failed
    \/ download_model_clear
    \/ main_match_result
    \/ main_return
    \/ ListenerNext

\* The odir binary running model-download (or hf-model-download).
Spec == Init /\ [][Next]_vars

InitLib ==
    /\ InitCommon
    /\ manifest.layers = <<>>
    /\ CONFIRMATION_REQUIRED \in BOOLEAN
    /\ listener = [pc |-> "idle", sig |-> NoSignal, i |-> 0, answer |-> ""]
    /\ remove_downloaded_on_error = TRUE
    /\ fs = InitialFs("other_models", manifest)
    /\ wf = [pc |-> "lib_idle", idx |-> 0, body |-> <<>>, off |-> 0,
             hasher |-> Sha256_new, result |-> NoResult,
             named_digest |-> manifest.config, ret |-> "", label |-> NoSignal, answer |-> "",
             model_identifier |-> <<>>, returned |-> "", frame |-> NoFrame]

NextLib ==
    \/ lib_download_model_blob
    \/ utils_blob_is_interrupted
    \/ confirm_load_required
    \/ confirm_swap_requested
    \/ confirm_swap_pending
    \/ confirm_prompt
    \/ confirm_answered
    \/ utils_blob_create_temp
    \/ utils_blob_track_temp
    \/ utils_blob_send
    \/ utils_blob_progress_active
    \/ utils_blob_loop_is_interrupted
    \/ utils_blob_loop_interrupt_requested
    \/ utils_blob_read_chunk
    \/ utils_blob_persist
    \/ lib_save_blob
    \/ lib_save_manifest
    \/ lib_cleanup_unnecessary_files
    \/ ListenerNext
    \/ ListenerDeferred

\* A caller of downloader::utils with the signal handlers installed.
SpecLib == InitLib /\ [][NextLib]_vars

InitHf ==
    /\ InitCommon
    /\ manifest.layers = <<>>
    /\ CONFIRMATION_REQUIRED = FALSE
    /\ listener = [pc |-> "unspawned", sig |-> NoSignal, i |-> 0, answer |-> ""]
    /\ remove_downloaded_on_error \in BOOLEAN
    /\ fs = InitialFs("fresh", manifest)
    /\ \E id \in Identifiers :
          wf = [pc |-> "hf_validate", idx |-> 0, body |-> <<>>, off |-> 0,
                hasher |-> Sha256_new, result |-> NoResult,
                named_digest |-> manifest.config, ret |-> "", label |-> NoSignal,
                answer |-> "", model_identifier |-> id, returned |-> "", frame |-> NoFrame]

NextHf ==
    \/ hf_download_model_validate
    \/ download_model_fetch_manifest
    \/ download_model_blob_create_temp
    \/ download_model_blob_track_temp
    \/ download_model_blob_send
    \/ download_model_blob_write_chunk
    \/ download_model_blob_persist
    \/ download_model_save_blob
    \/ download_model_remove_source
    \/ download_model_save_blob_failed
    \/ download_model_save_manifest
    \/ download_model_save_manifest_failed
    \/ download_model_clear
    \/ main_match_result
    \/ main_return

\* HuggingFaceModelDownloader::download_model called by hf-model-download on
\* an identifier from the command line, no signal being sent.
SpecHf == InitHf /\ [][NextHf]_vars

InitSignal ==
    /\ InitCommon
    /\ manifest.layers = <<>>
    /\ CONFIRMATION_REQUIRED = FALSE
    /\ listener = [pc |-> "idle", sig |-> NoSignal, i |-> 0, answer |-> ""]
    /\ remove_downloaded_on_error = TRUE
    /\ fs = InitialFs("other_models", manifest)
    /\ wf = [pc |-> "call_idle", idx |-> 0, body |-> <<>>, off |-> 0,
             hasher |-> Sha256_new, result |-> NoResult,
             named_digest |-> manifest.config, ret |-> "", label |-> NoSignal,
             answer |-> "", model_identifier |-> <<>>, returned |-> "", frame |-> NoFrame]

NextSignal ==
    \/ call_set_confirmation_required
    \/ call_set_progress_active
    \/ call_confirm_pending_interrupt
    \/ confirm_load_required
    \/ confirm_swap_requested
    \/ confirm_swap_pending
    \/ confirm_prompt
    \/ confirm_answered
    \/ ListenerNext
    \/ ListenerDeferred

\* A thread calling the public functions of signal_handler.rs while the
\* listener thread installed by install_signal_handlers runs.
SpecSignal == InitSignal /\ [][NextSignal]_vars

\* -------------------------------------- utils.rs, ownership reconciliation
\* Absolute paths as their sequence of components; <<>> is "/".
Components == {"a", "b"}
RECURSIVE PathsUpTo(_)
PathsUpTo(n) ==
    IF n = 0 THEN {<<>>}
    ELSE PathsUpTo(n - 1) \cup {Append(p, c) : p \in PathsUpTo(n - 1), c \in Components}
PathBufs == PathsUpTo(MaxPathLen)

\* Path::starts_with: `base` is a prefix of `path`, component by component.
starts_with(path, base) ==
    /\ Len(base) <= Len(path)
    /\ SubSeq(path, 1, Len(base)) = base

\* Path::parent: None for the root, else the path without its last component.
parent(path) ==
    IF path = <<>> THEN [some |-> FALSE, path |-> <<>>]
    ELSE [some |-> TRUE, path |-> SubSeq(path, 1, Len(path) - 1)]

\* Path::join with a relative single-component `tag`.
join(path, tag) == Append(path, tag)

\* ensure_ownership(path, ownership): `path` is one more path the call has
\* reconciled (metadata read, chown when uid or gid differ).
ensure_ownership(frame, path) == [frame EXCEPT !.ensured = @ \cup {path}]

\* utils.rs:347  if let Some(ownership) = models_dir_ownership
save_manifest_ownership ==
    /\ At("own_if_some")
    /\ wf' = [wf EXCEPT !.pc = IF wf.frame.models_dir_ownership
                               THEN "own_tree_starts_with" ELSE "own_done"]
    /\ UNCHANGED <<flags, listener, signals, proc, remove_downloaded_on_error, manifest,
                   fs, unnecessary_files, files_to_be_copied, hist>>

\* utils.rs:406-410  if !dir.starts_with(models_root) { return; }  current = dir
ensure_ownership_for_dir_tree_enter ==
    /\ At("own_tree_starts_with")
    /\ wf' = IF ~starts_with(wf.frame.manifests_dir, wf.frame.models_root)
             THEN [wf EXCEPT !.pc = "own_target_file"]
             ELSE [wf EXCEPT !.pc = "own_tree_loop",
                             !.frame.current = wf.frame.manifests_dir]
    /\ UNCHANGED <<flags, listener, signals, proc, remove_downloaded_on_error, manifest,
                   fs, unnecessary_files, files_to_be_copied, hist>>

\* utils.rs:411-421  one turn of the loop: ensure_ownership(current), break at
\* models_root or at the root of the filesystem, else go to the parent.
ensure_ownership_for_dir_tree_loop ==
    /\ At("own_tree_loop")
    /\ LET frame == ensure_ownership(wf.frame, wf.frame.current)
           up == parent(wf.frame.current)
       IN wf' = IF wf.frame.current = wf.frame.models_root \/ ~up.some
                THEN [wf EXCEPT !.pc = "own_target_file", !.frame = frame]
                ELSE [wf EXCEPT !.frame = [frame EXCEPT !.current = up.path,
                                                        !.turns = @ + 1]]
    /\ UNCHANGED <<flags, listener, signals, proc, remove_downloaded_on_error, manifest,
                   fs, unnecessary_files, files_to_be_copied, hist>>

\* utils.rs:349  ensure_ownership(&target_file, ownership)
save_manifest_ensure_target_file ==
    /\ At("own_target_file")
    /\ wf' = [wf EXCEPT !.pc = "own_chown_dirs",
                        !.frame = ensure_ownership(wf.frame,
                                     join(wf.frame.manifests_dir, wf.frame.tag))]
    /\ UNCHANGED <<flags, listener, signals, proc, remove_downloaded_on_error, manifest,
                   fs, unnecessary_files, files_to_be_copied, hist>>

\* utils.rs:350-352  for dir in chown_dirs { ensure_ownership(dir, ownership) }
save_manifest_ensure_chown_dirs ==
    /\ At("own_chown_dirs")
    /\ wf' = [wf EXCEPT !.pc = "own_done",
                        !.frame.ensured = @ \cup {wf.frame.chown_dirs[i] :
                                                    i \in 1..Len(wf.frame.chown_dirs)}]
    /\ UNCHANGED <<flags, listener, signals, proc, remove_downloaded_on_error, manifest,
                   fs, unnecessary_files, files_to_be_copied, hist>>

\* A call of utils::save_manifest that has written the manifest file
\* (utils.rs:335-345) and is at the ownership block, for every models_root and
\* manifests_dir and for no or one directory in chown_dirs.
InitOwn ==
    /\ InitCommon
    /\ manifest.layers = <<>>
    /\ CONFIRMATION_REQUIRED = FALSE
    /\ listener = [pc |-> "unspawned", sig |-> NoSignal, i |-> 0, answer |-> ""]
    /\ remove_downloaded_on_error = TRUE
    /\ fs = InitialFs("fresh", manifest)
    /\ \E models_root \in PathBufs, manifests_dir \in PathBufs,
          chown_dirs \in {<<>>} \cup {<<d>> : d \in PathsUpTo(1)},
          models_dir_ownership \in BOOLEAN :
          wf = [pc |-> "own_if_some", idx |-> 0, body |-> <<>>, off |-> 0,
                hasher |-> Sha256_new, result |-> NoResult,
                named_digest |-> manifest.config, ret |-> "", label |-> NoSignal,
                answer |-> "", model_identifier |-> <<>>, returned |-> "",
                frame |-> [models_root |-> models_root, manifests_dir |-> manifests_dir,
                           tag |-> "latest", chown_dirs |-> chown_dirs,
                           models_dir_ownership |-> models_dir_ownership,
                           current |-> <<>>, ensured |-> {}, turns |-> 0]]

NextOwn ==
    \/ save_manifest_ownership
    \/ ensure_ownership_for_dir_tree_enter
    \/ ensure_ownership_for_dir_tree_loop
    \/ save_manifest_ensure_target_file
    \/ save_manifest_ensure_chown_dirs

\* The ownership reconciliation of utils::save_manifest over its path
\* arguments.
SpecOwn == InitOwn /\ [][NextOwn]_vars

\* --------------------------- HuggingFaceModelDownloader::list_available_models
U32Modulus == 2 ^ U32Bits
U32 == 0..(U32Modulus - 1)

\* Option<u32>
None == [some |-> FALSE, value |-> 0]
Some(v) == [some |-> TRUE, value |-> v]
unwrap_or(opt, default) == IF opt.some THEN opt.value ELSE default

\* u32::min
min(a, b) == IF a <= b THEN a ELSE b

\* `a + b` and `a * b` on u32: the mathematical result does not fit.
add_overflows(a, b) == a + b >= U32Modulus
mul_overflows(a, b) == a * b >= U32Modulus
\* The result a build without overflow checks computes.
wrapping_add(a, b) == (a + b) % U32Modulus
wrapping_mul(a, b) == (a * b) % U32Modulus

\* The page sizes a caller passes: around the default, the cap and the limits.
PageSizes == {0, 1, 25, 100, 101, U32Modulus - 1}

\* hf_downloader.rs:408-421  page and page_size with their defaults and the
\* cap, then `if page_size * (page + 1) >= 1000 { return Err(..) }`. On an
\* overflow a build with overflow checks panics and one without goes on with
\* the wrapped value.
hf_list_available_models_check ==
    /\ At("hf_list_check")
    /\ LET page == unwrap_or(wf.frame.page, 1)
           page_size == min(unwrap_or(wf.frame.page_size, 25), 100)
           overflow == \/ add_overflows(page, 1)
                       \/ mul_overflows(page_size, wrapping_add(page, 1))
           limit == wrapping_mul(page_size, wrapping_add(page, 1))
           checked == IF limit >= 1000
                      THEN [LibReturn(Err("Other")) EXCEPT !.pc = "hf_list_rejected"]
                      ELSE [wf EXCEPT !.pc = "hf_list_navigate"]
       IN \E overflow_checks \in BOOLEAN :
             wf' = IF overflow /\ overflow_checks
                   THEN [wf EXCEPT !.pc = "hf_list_panicked", !.frame.overflow = TRUE]
                   ELSE [checked EXCEPT !.frame.overflow = overflow]
    /\ UNCHANGED <<flags, listener, signals, proc, remove_downloaded_on_error, manifest,
                   fs, unnecessary_files, files_to_be_copied, hist>>

\* hf_downloader.rs:428-472  the HEAD requests that follow the Link headers
\* up to the requested page: one of them fails, or the pages run out, or the
\* URL of the requested page is found.
hf_list_available_models_navigate ==
    /\ At("hf_list_navigate")
    /\ \E outcome \in {"HttpError", "Other", "found"} :
          /\ outcome # "found" => unwrap_or(wf.frame.page, 1) > 1
          /\ wf' = IF outcome = "found"
                   THEN [wf EXCEPT !.pc = "hf_list_get"]
                   ELSE [LibReturn(Err(outcome)) EXCEPT !.pc = "hf_list_failed"]
    /\ UNCHANGED <<flags, listener, signals, proc, remove_downloaded_on_error, manifest,
                   fs, unnecessary_files, files_to_be_copied, hist>>

\* hf_downloader.rs:474-492  GET of the page, json(), sort, Ok(identifiers)
hf_list_available_models_get ==
    /\ At("hf_list_get")
    /\ \E ok \in BOOLEAN :
          wf' = IF ok
                THEN [LibReturn(Ok) EXCEPT !.pc = "hf_list_listed"]
                ELSE [LibReturn(Err("HttpError")) EXCEPT !.pc = "hf_list_failed"]
    /\ UNCHANGED <<flags, listener, signals, proc, remove_downloaded_on_error, manifest,
                   fs, unnecessary_files, files_to_be_copied, hist>>

\* hf-list-models (main.rs:514-518) or another caller of the trait method:
\* any page, and a page size out of PageSizes, or none.
InitHfList ==
    /\ InitCommon
    /\ manifest.layers = <<>>
    /\ CONFIRMATION_REQUIRED = FALSE
    /\ listener = [pc |-> "unspawned", sig |-> NoSignal, i |-> 0, answer |-> ""]
    /\ remove_downloaded_on_error = TRUE
    /\ fs = InitialFs("fresh", manifest)
    /\ \E page \in {None} \cup {Some(v) : v \in U32},
          page_size \in {None} \cup {Some(v) : v \in PageSizes} :
          wf = [pc |-> "hf_list_check", idx |-> 0, body |-> <<>>, off |-> 0,
                hasher |-> Sha256_new, result |-> NoResult,
                named_digest |-> manifest.config, ret |-> "", label |-> NoSignal,
                answer |-> "", model_identifier |-> <<>>, returned |-> "",
                frame |-> [page |-> page, page_size |-> page_size, overflow |-> FALSE]]

NextHfList ==
    \/ hf_list_available_models_check
    \/ hf_list_available_models_navigate
    \/ hf_list_available_models_get

\* HuggingFaceModelDownloader::list_available_models over its two arguments.
SpecHfList == InitHfList /\ [][NextHfList]_vars

\* ================================================================ properties
\* The blob paths the manifest of the session references.
ReferencedBlobs == {BlobPath(BlobDigests(manifest)[i]) : i \in 1..NumBlobs(manifest)}
\* A blob file whose content hashes to the <hex> of its name.
Verified(p) == is_file(fs, p) /\ Sha256_digest(fs[p].data) = p[2]
\* The triple the save loop is about to hand to save_blob.
CurrentStaged == files_to_be_copied[wf.idx]
Failed == wf.result.done /\ ~wf.result.ok

\* C1: in every reachable state a file at <store>/blobs/sha256-<hex> holds
\* content whose digest is <hex>; no unverified or partially written content is
\* ever at that path, also when the copy fails part-way.
C1_BlobContentMatchesName == \A p \in BlobPaths : is_file(fs, p) => Verified(p)

\* C2: when the computed digest differs from the declared one, the save_blob
\* step returns the mismatch error, changes no file (the target included) and
\* leaves the RollbackSet as it was, the staged temp file still a member.
C2_MismatchLeavesStoreAndLedger ==
    [][(/\ At("save_blob")
        /\ wf' # wf
        /\ CurrentStaged.computed_digest # expected_digest(CurrentStaged.named_digest))
       => (/\ wf'.pc = "save_blob_failed"
           /\ wf'.result.err = "Digest mismatch"
           /\ fs' = fs
           /\ unnecessary_files' = unnecessary_files
           /\ CurrentStaged.source \in unnecessary_files')]_vars

\* C2 case: save_blob has just refused a staged file whose digest mismatches.
C2_Witness ==
    /\ At("save_blob_failed")
    /\ wf.result.err = "Digest mismatch"
    /\ is_file(fs, CurrentStaged.source)
    /\ CurrentStaged.source \in unnecessary_files
    /\ ~exists(fs, BlobPath(CurrentStaged.named_digest))

C4_FailureLeavesNothing == Failed => \A p \in hist.created : ~exists(fs, p)

\* C5: once a fetch has started with interrupted = true, the session never
\* calls save_blob or save_manifest.
C5_NoCommitAfterInterrupt == hist.calls_after_interrupt = {}

\* C6: when a cancellation was confirmed before a fetch of the session began,
\* then by the time cleanup-done is acknowledged download_model has returned
\* the user-cancelled error and every path of the RollbackSet is removed.
C6_CancelRollsBackBeforeAck ==
    (CLEANUP_DONE /\ hist.fetch_began_interrupted) =>
        /\ wf.result = Err(InterruptedByUser)
        /\ \A p \in unnecessary_files : ~exists(fs, p)

\* C7: a session that failed after the user confirmed cancellation exits with
\* 130 (SIGINT) or 143 (SIGTERM) whichever thread ends the process first; a
\* successful session without a confirmed cancellation exits with 0.
C7_ExitCodeContract ==
    ~proc.alive =>
        /\ (hist.fetch_began_interrupted /\ Failed) =>
               proc.code = SignalExitCode(hist.confirmed)
        /\ (wf.result.ok /\ hist.confirmed = NoSignal) => proc.code = ExitSuccess

\* C8: a staged temp file that holds body bytes is a member of the RollbackSet
\* until save_blob has committed it or rollback has removed it.
C8_StagedFileTracked ==
    \A t \in TmpPaths :
        (is_file(fs, t) /\ fs[t].data # <<>>) =>
            (t \in unnecessary_files \/ t \in hist.consumed)

\* C8 case: body bytes are being written to a tracked temp file.
C8_Witness ==
    /\ At("blob_write_chunk")
    /\ wf.off > 0
    /\ fs[TmpPath(wf.idx)].data # <<>>
    /\ TmpPath(wf.idx) \in unnecessary_files

\* C9: clear() runs only when every referenced blob and the manifest are
\* committed; after download_model returned success the RollbackSet is empty,
\* so a rollback removes none of the committed paths.
C9_SuccessClearsLedger ==
    /\ (At("clear") \/ wf.result.ok) =>
          /\ hist.manifest_written
          /\ fs[ManifestFile] = File(ManifestBody)
          /\ \A p \in ReferencedBlobs : p \in hist.committed /\ Verified(p)
    /\ wf.result.ok =>
          /\ unnecessary_files = {}
          /\ \A order \in Orders(unnecessary_files) :
                cleanup_unnecessary_files(fs, unnecessary_files, order).fs = fs

\* C9 case: download_model has returned Ok(true) for a model with a layer.
C9_Witness ==
    /\ wf.result.ok
    /\ NumBlobs(manifest) > 1
    /\ fs[ManifestFile] = File(ManifestBody)
    /\ unnecessary_files = {}

\* C10: for the RollbackSet and filesystem of every reachable state, calling
\* cleanup_unnecessary_files twice in a row leaves the filesystem that one
\* call leaves.
C10_RollbackIdempotent ==
    \A first \in Orders(unnecessary_files) :
        LET once == cleanup_unnecessary_files(fs, unnecessary_files, first) IN
        \A second \in Orders(once.unnecessary_files) :
            cleanup_unnecessary_files(once.fs, once.unnecessary_files, second).fs = once.fs

\* The workflow step about to run is a rollback of the RollbackSet.
RollbackStep ==
    /\ wf' # wf
    /\ \/ At("save_blob_failed")
       \/ At("save_manifest_failed") /\ remove_downloaded_on_error
Children(d) == {p \in Paths : Parent(p) = d /\ p # d}

StagedSources == {files_to_be_copied[i].source : i \in 1..Len(files_to_be_copied)}

\* C13: after download_model has returned a network error, the RollbackSet is
\* rolled back if remove_downloaded_on_error is enabled, and what was staged is
\* kept if it is not.
C13_NetworkErrorRollbackByPolicy ==
    (Failed /\ wf.result.err = "HttpError") =>
        /\ remove_downloaded_on_error => \A p \in unnecessary_files : ~exists(fs, p)
        /\ ~remove_downloaded_on_error => \A p \in StagedSources : is_file(fs, p)

\* C14: with the remote-presence check enabled and the server not listing the
\* model, once the manifest is written and download_model has returned, the
\* session has rolled back everything it created if
\* remove_downloaded_on_error is enabled, and has kept the blobs and the
\* manifest if it is not.
C14_PresenceCheckRollbackByPolicy ==
    (/\ check_model_presence
     /\ ~is_model_present_in_ollama(OllamaTags, {ModelName})
     /\ hist.manifest_written
     /\ wf.result.done) =>
        /\ remove_downloaded_on_error => \A p \in hist.created : ~exists(fs, p)
        /\ ~remove_downloaded_on_error =>
              /\ is_file(fs, ManifestFile)
              /\ \A p \in ReferencedBlobs : Verified(p)

\* The listener thread takes its step at `if !CONFIRMATION_REQUIRED.load()`.
ListenerChecksConfirmation ==
    /\ LAt("check_confirmation")
    /\ wf' = wf
    /\ (listener' # listener \/ proc' # proc)

\* C15: when confirmation_required is false as the listener handles SIGINT
\* (SIGTERM), that step ends the process with exit code 130 (143): no prompt,
\* no wait for cleanup-done, interrupted and the other flags unchanged.
C15_ImmediateExitWithoutConfirmation ==
    [][(ListenerChecksConfirmation /\ ~CONFIRMATION_REQUIRED) =>
         /\ ~proc'.alive
         /\ listener.sig = SIGINT => proc'.code = ExitSigint
         /\ listener.sig = SIGTERM => proc'.code = ExitSigterm
         /\ listener' = listener
         /\ UNCHANGED <<flags, hist>>]_vars

\* C15 case: SIGTERM arrived before confirmation was required and the
\* listener has ended the process.
C15_Witness ==
    /\ ~proc.alive
    /\ proc.code = ExitSigterm
    /\ listener.pc = "check_confirmation"
    /\ listener.sig = SIGTERM
    /\ ~CONFIRMATION_REQUIRED
    /\ ~INTERRUPTED
    /\ ~CLEANUP_DONE

\* C16: when the listener, with confirmation required, finds progress_active
\* true for the signal it handles, it goes on to store that signal in
\* pending_signal, then true in interrupt_requested, and returns to waiting
\* for signals: it does not prompt, set interrupted or end the process.
C16_DeferredWhileProgressActive ==
    [][(/\ listener' # listener
        /\ \/ LAt("check_progress") /\ PROGRESS_ACTIVE
           \/ LAt("store_pending")
           \/ LAt("store_requested")) =>
         /\ LAt("check_progress") => listener'.pc = "store_pending"
         /\ LAt("store_pending") =>
               (PENDING_SIGNAL' = listener.sig /\ listener'.pc = "store_requested")
         /\ LAt("store_requested") =>
               (INTERRUPT_REQUESTED' = TRUE /\ listener'.pc = "idle")
         /\ CONFIRMATION_REQUIRED
         /\ UNCHANGED <<INTERRUPTED, CLEANUP_DONE, proc, hist>>]_vars

\* C16 case: a SIGTERM that arrived during a transfer has been recorded.
C16_Witness ==
    /\ Alive
    /\ listener.pc = "idle"
    /\ listener.sig = SIGTERM
    /\ PENDING_SIGNAL = SIGTERM
    /\ INTERRUPT_REQUESTED
    /\ PROGRESS_ACTIVE
    /\ ~INTERRUPTED

\* C17: no session completes (every referenced blob committed, then the
\* manifest written) while a signal the listener recorded as pending during a
\* transfer is still unanswered.
C17_NoSuccessWithPendingRequest == ~hist.success_with_request

\* An answer that is not y/yes, or no answer within the 10 seconds.
Declined(input) == input = "timeout" \/ to_lowercase(input) \notin {"y", "yes"}

\* C18: when the listener's confirmation prompt times out, or gets any answer
\* other than y/yes, the listener resolves it to No: interrupted stays false,
\* the listener does not end the process but goes back to waiting for
\* signals, and the session is left as it was, free to continue.
C18_UnansweredPromptResumes ==
    [][(LAt("answered") /\ Declined(listener.answer) /\ listener' # listener) =>
         /\ ~INTERRUPTED /\ ~INTERRUPTED'
         /\ proc' = proc
         /\ listener'.pc = "idle"
         /\ UNCHANGED <<INTERRUPT_REQUESTED, PENDING_SIGNAL, CLEANUP_DONE, session>>]_vars

\* C18 case: the listener's prompt for a SIGINT has timed out in the middle
\* of a session that has staged a blob.
C18_Witness ==
    /\ LAt("answered")
    /\ listener.answer = "timeout"
    /\ listener.sig = SIGINT
    /\ files_to_be_copied # <<>>
    /\ wf.pc \notin {"done", "lib_idle"}

\* C19: when the confirmation the Blob Fetcher runs for a deferred signal is
\* answered No, interrupt_requested is false and pending_signal is None once
\* it has resolved (with interrupted, the RollbackSet, the staged bytes and
\* the running digest as they were, and the next chunk read next).
C19_ResumedClearsPending == ~hist.resumed_with_request

\* C20: while the Blob Fetcher's confirmation awaits its answer, a further
\* SIGINT or SIGTERM is ignored: interrupt_requested and pending_signal, both
\* cleared when the confirmation began, stay cleared until it resolves.
C20_SecondSignalIgnoredWhileConfirming ==
    (Alive /\ wf.pc \in {"confirm_prompt", "confirm_answered"}) =>
        (~INTERRUPT_REQUESTED /\ PENDING_SIGNAL = NoSignal)

\* C21: under every interleaving of the listener thread and the workflow
\* thread, the listener's confirmation prompt is never open while the Blob
\* Fetcher's progress display is active.
C21_NoListenerPromptDuringProgress ==
    ~(Alive /\ listener.pc = "prompt" /\ PROGRESS_ACTIVE)

\* The process ends by the listener thread's exit, not by main's return.
ListenerExits ==
    /\ LAt("wait_for_cleanup")
    /\ ~proc'.alive
    /\ ~(wf.pc = "return" /\ proc'.code = ExitSuccess)

\* C22: once the listener has confirmed a cancellation itself, it ends the
\* process only when cleanup_done is set or its bounded wait has expired,
\* never waits beyond the expiry, and exits with the code of the signal
\* (130 for SIGINT, 143 for SIGTERM).
C22_ListenerWaitsForCleanup ==
    [][/\ ListenerExits =>
            /\ CLEANUP_DONE \/ listener.i = MaxPolls
            /\ proc'.code = (IF listener.sig = SIGTERM THEN ExitSigterm ELSE ExitSigint)
       /\ (LAt("wait_for_cleanup") /\ listener' # listener) =>
            /\ ~CLEANUP_DONE
            /\ listener.i < MaxPolls
            /\ listener'.i = listener.i + 1
            /\ proc' = proc]_vars

\* C22 case: the listener confirmed a SIGTERM, the workflow set cleanup_done
\* before the wait expired, and the listener ended the process with 143.
C22_Witness ==
    /\ ~Alive
    /\ listener.pc = "wait_for_cleanup"
    /\ listener.sig = SIGTERM
    /\ hist.confirmed = SIGTERM
    /\ CLEANUP_DONE
    /\ listener.i < MaxPolls
    /\ proc.code = ExitSigterm

Succeeded == wf.result.done /\ wf.result.ok
\* The store held no manifest directory when the session began.
StartedOnEmptyStore == ManifestDirs \subseteq hist.created
DistinctDigests ==
    \A i, j \in 1..NumBlobs(manifest) :
       i # j => BlobDigests(manifest)[i] # BlobDigests(manifest)[j]

InstalledStore == InitialFs("installed", manifest)

C26_SaveBlobTransfersResponsibility ==
    [][(At("save_blob") /\ wf'.pc = "remove_source") =>
         /\ CurrentStaged.source \in unnecessary_files
         /\ unnecessary_files' =
               (unnecessary_files \ {CurrentStaged.source})
                  \cup {BlobPath(CurrentStaged.named_digest)}
         /\ is_file(fs', BlobPath(CurrentStaged.named_digest))]_vars

\* C26 case: the config blob has been committed while the layer's staged
\* file is still in the set.
C26_Witness ==
    /\ At("remove_source")
    /\ wf.idx = 1
    /\ TmpPath(1) \notin unnecessary_files
    /\ BlobPath(manifest.config) \in unnecessary_files
    /\ TmpPath(2) \in unnecessary_files

\* C27: once save_manifest has returned Ok, every directory of the manifest
\* path that the call created is in the RollbackSet, and so is the manifest
\* file.
C27_SaveManifestRecordsCreatedDirs ==
    (At("clear") /\ hist.manifest_written) =>
        ((ManifestDirs \cap hist.created) \cup {ManifestFile}) \subseteq unnecessary_files

\* C28: a process whose download_model failed with an error other than a
\* user cancellation never exits with status 0, however the listener thread
\* interleaves with main.
C28_FailureExitsNonZero ==
    (~Alive /\ Failed /\ wf.result.err # InterruptedByUser) => proc.code # ExitSuccess

\* The repository part of an identifier: the text before its first ':'.
RepositoryPart(id) ==
    SubSeq(id, 1, IF \E i \in 1..Len(id) : id[i] = ":"
                  THEN (CHOOSE i \in 1..Len(id) :
                           id[i] = ":" /\ \A j \in 1..(i - 1) : id[j] # ":") - 1
                  ELSE Len(id))
\* Exactly two '/'-separated components: exactly one '/'.
TwoComponents(repo) == Cardinality({i \in 1..Len(repo) : repo[i] = "/"}) = 1

\* C29: the HuggingFace download_model answers every identifier whose
\* repository part is not exactly two '/'-separated components with
\* InvalidIdentifier, having made no request, touched no file and recorded
\* nothing in the RollbackSet.
C29_MalformedIdentifierRejected ==
    ~TwoComponents(RepositoryPart(wf.model_identifier)) =>
        /\ wf.pc = "hf_validate" \/ (Failed /\ wf.result.err = "InvalidIdentifier")
        /\ fs = InitialFs("fresh", manifest)
        /\ unnecessary_files = {}
        /\ files_to_be_copied = <<>>
        /\ hist.created = {} /\ hist.written = {}

\* C29 case: an identifier with an empty component too many ("u//u") was
\* rejected and the process exited with 1.
C29_Witness ==
    /\ wf.model_identifier = <<"u", "/", "/", "u">>
    /\ Failed
    /\ wf.result.err = "InvalidIdentifier"
    /\ ~Alive
    /\ proc.code = ExitFailure

\* C30: confirm_pending_interrupt, when confirmation is not required (also
\* with a request pending) or when no interrupt is requested (also with a
\* signal stored in pending_signal), returns false without prompting and
\* leaves interrupted, interrupt_requested and pending_signal as they were.
C30_ConfirmWithoutRequestIsNoOp ==
    [][(/\ wf' # wf
        /\ wf.ret = "call"
        /\ \/ At("confirm_required") /\ ~CONFIRMATION_REQUIRED
           \/ At("confirm_swap_requested") /\ ~INTERRUPT_REQUESTED) =>
         /\ wf'.pc = "call_idle"
         /\ wf'.returned = "false"
         /\ UNCHANGED <<INTERRUPTED, INTERRUPT_REQUESTED, PENDING_SIGNAL>>]_vars

\* C30 case: the call returned false with confirmation not required while a
\* deferred SIGINT is still recorded.
C30_Witness ==
    /\ At("call_idle")
    /\ wf.returned = "false"
    /\ ~CONFIRMATION_REQUIRED
    /\ INTERRUPT_REQUESTED
    /\ PENDING_SIGNAL = SIGINT
    /\ ~INTERRUPTED

\* C31: a session that failed and rolled back leaves every file that was in
\* the store before it began in place with its content: a manifest that was
\* installed beforehand still finds each blob it references.
C31_RollbackKeepsPreexistingFiles ==
    (Failed /\ is_file(fs, ManifestFile) /\ ManifestFile \notin hist.created) =>
        \A p \in ReferencedBlobs : Verified(p)

\* C32: in every reachable state, whatever the interleaving of the listener
\* thread (pending_signal stored, then interrupt_requested) with
\* confirm_pending_interrupt (interrupt_requested swapped, then
\* pending_signal), interrupt_requested = true implies that pending_signal
\* holds SIGINT or SIGTERM.
C32_RequestImpliesPendingSignal ==
    INTERRUPT_REQUESTED => PENDING_SIGNAL \in {SIGINT, SIGTERM}

\* C33: while the session runs, up to clear() on full success, every file or
\* directory it has created and not deleted is a member of the RollbackSet
\* (looked at once a new temp file's insert has been executed).
C33_CreatedPathsAreTracked ==
    (Alive /\ ~wf.result.done /\ wf.pc # "blob_track_temp") =>
        \A p \in hist.created : exists(fs, p) => p \in unnecessary_files

\* C34: interrupted turns true only in the step that resolves a confirmation
\* prompt answered y/yes, in the listener thread or in
\* confirm_pending_interrupt, with confirmation required; once true it stays
\* true.
C34_InterruptedOnlyByConfirmation ==
    [][/\ INTERRUPTED => INTERRUPTED'
       /\ (~INTERRUPTED /\ INTERRUPTED') =>
             /\ CONFIRMATION_REQUIRED
             /\ \/ /\ LAt("answered")
                   /\ listener.answer \in {"y", "YES"}
                   /\ listener' # listener
                \/ /\ At("confirm_answered")
                   /\ wf.answer \in {"y", "YES"}
                   /\ wf' # wf]_vars

\* C34 case: the Blob Fetcher's deferred prompt for a SIGTERM was answered
\* yes and the fetch returned the cancellation error.
C34_Witness ==
    /\ INTERRUPTED
    /\ CONFIRMATION_REQUIRED
    /\ hist.confirmed = SIGTERM
    /\ Failed
    /\ wf.result.err = InterruptedByUser


\* C35: at most one confirmation prompt awaits an answer at any time: the
\* listener thread's prompt and the prompt of confirm_pending_interrupt on the
\* workflow thread are never open together.
C35_SinglePrompt ==
    ~(Alive /\ listener.pc = "prompt" /\ wf.pc = "confirm_prompt")


\* C36: the process of a model-download command never ends with a signal's
\* exit code (130, 143) unless a confirmation prompt was answered yes: no
\* signal delivered after install_signal_handlers ends the process unprompted,
\* the window before set_confirmation_required(true) included.
C36_NoUnpromptedTermination ==
    (~proc.alive /\ proc.code \in {ExitSigint, ExitSigterm}) =>
        hist.confirmed # NoSignal


\* The workflow thread is inside the chunk loop of download_model_blob
\* (utils.rs:222-251), the confirmation run from the loop included.
InChunkLoop ==
    \/ wf.pc \in {"u_loop_is_interrupted", "u_loop_interrupt_requested", "u_read_chunk"}
    \/ /\ wf.ret = "loop"
       /\ wf.pc \in {"confirm_required", "confirm_swap_requested", "confirm_swap_pending",
                     "confirm_prompt", "confirm_answered"}

\* C37: progress_active is true only while the chunk loop of a blob transfer
\* executes: false at the start, and false again once download_model_blob has
\* returned by any path; a signal the listener handles outside the chunk loop
\* is prompted by the listener, not deferred.
C37_ProgressActiveOnlyInChunkLoop ==
    /\ ~PROGRESS_ACTIVE
    /\ [][/\ PROGRESS_ACTIVE' => InChunkLoop'
          /\ (LAt("check_progress") /\ listener' # listener /\ ~InChunkLoop) =>
                listener'.pc = "prompt"]_vars

\* C37 case: the fetch has returned its staged file, the flag is false again
\* and a signal is being prompted by the listener.
C37_Witness ==
    /\ At("lib_idle")
    /\ wf.result.ok
    /\ files_to_be_copied # <<>>
    /\ ~PROGRESS_ACTIVE
    /\ listener.pc = "prompt"


\* C38: a rollback deletes only paths that are members of the RollbackSet,
\* removes from the set exactly the paths it deleted, and leaves every other
\* path of the filesystem, and every member it did not delete or that was
\* already gone, as it was.
C38_RollbackFrame ==
    [][RollbackStep =>
         /\ \A p \in Paths :
               fs'[p] # fs[p] => (p \in unnecessary_files /\ exists(fs, p) /\ ~exists(fs', p))
         /\ unnecessary_files' \subseteq unnecessary_files
         /\ unnecessary_files \ unnecessary_files' =
               {p \in unnecessary_files : exists(fs, p) /\ ~exists(fs', p)}]_vars

\* C38 case: a rollback after a digest mismatch has deleted the blob the
\* session committed and left a blob that was in the store before.
C38_Witness ==
    /\ Failed
    /\ wf.result.err = "Digest mismatch"
    /\ hist.committed # {}
    /\ \A p \in hist.committed : ~exists(fs, p) /\ p \notin unnecessary_files
    /\ \E q \in BlobPaths : is_file(fs, q) /\ q \notin hist.created


\* manifests_dir and its ancestors up to and including models_root: nothing
\* when manifests_dir is not under models_root.
DirTree(frame) ==
    IF starts_with(frame.manifests_dir, frame.models_root)
    THEN {SubSeq(frame.manifests_dir, 1, k) :
            k \in Len(frame.models_root)..Len(frame.manifests_dir)}
    ELSE {}

\* C39: when an ownership was inferred, save_manifest has reconciled
\* ownership on manifest_dir, on each of its ancestors up to and including the
\* store root and on the new manifest file, and on no path outside the store
\* root; the upward walk ends within as many turns as manifest_dir has
\* components and does nothing when manifest_dir is not under the store root.
C39_OwnershipWithinStoreRoot ==
    (At("own_done") /\ wf.frame.models_dir_ownership) =>
        /\ DirTree(wf.frame) \subseteq wf.frame.ensured
        /\ join(wf.frame.manifests_dir, wf.frame.tag) \in wf.frame.ensured
        /\ \A p \in wf.frame.ensured : starts_with(p, wf.frame.models_root)
        /\ wf.frame.turns <= Len(wf.frame.manifests_dir)


\* C40: list_available_models evaluates its 999-results ceiling without
\* integer overflow and, before any HTTP request, rejects exactly the requests
\* whose page, with page_size capped at 100, reaches beyond the first 999
\* models: every request with page * page_size <= 999 is accepted.
C40_CeilingExactWithoutOverflow ==
    (Alive /\ wf.pc \in {"hf_list_panicked", "hf_list_rejected", "hf_list_navigate"}) =>
        LET page == unwrap_or(wf.frame.page, 1)
            page_size == min(unwrap_or(wf.frame.page_size, 25), 100)
        IN /\ ~wf.frame.overflow
           /\ wf.pc # "hf_list_panicked"
           /\ wf.pc = "hf_list_rejected" <=> page * page_size > 999

====
